---------------------------- MODULE Spec2Model ----------------------------
(***************************************************************************)
(* A model of target-csv (src/target_csv.py, src/target_helper.py): the    *)
(* message loop of persist_messages, the record transformer (flatten,      *)
(* transform), the CSV append with header inference, and the checkpoint    *)
(* emitted by main through emit_state.                                     *)
(*                                                                         *)
(* Python values are modelled as follows.                                  *)
(*   - a dict is a sequence of <<key, value>> pairs with distinct keys, in *)
(*     insertion order (Python dicts keep insertion order);                *)
(*   - a key is a string, joined with "__" by string concatenation;        *)
(*   - a JSON value is a record [t, s, items]: t is "scalar", "null",      *)
(*     "list" or "map"; s is the text of a scalar or the repr of a list;   *)
(*     items is the dict of a map;                                         *)
(*   - a CSV file is the sequence of its lines, each line the sequence of  *)
(*     its fields as csv.reader returns them and csv.writer writes them;   *)
(*     a blank line is the line with no field;                             *)
(*   - the dicts of persist_messages keyed by stream (schemas, validators, *)
(*     key_properties, headers) and the file system (path -> file) are     *)
(*     functions whose DOMAIN is the set of keys present.                  *)
(* The code is read as running on the Python it was written for, where     *)
(* collections.MutableMapping exists.                                      *)
(***************************************************************************)
EXTENDS Integers, Sequences, FiniteSets, TLC

(***************************************************************************)
(* Bound of the model: the number of input lines one run reads.            *)
(***************************************************************************)
MaxMsgs == 4

None == "None"

-----------------------------------------------------------------------------
(* JSON values and dicts *)

Scalar(s) == [t |-> "scalar", s |-> s, items |-> <<>>]
Null == [t |-> "null", s |-> "", items |-> <<>>]
List(repr) == [t |-> "list", s |-> repr, items |-> <<>>]
Map(d) == [t |-> "map", s |-> "", items |-> d]

EmptyDict == <<>>

\* d.keys(), in insertion order
keys(d) == [i \in 1..Len(d) |-> d[i][1]]

\* k in d
has_key(d, k) == \E i \in 1..Len(d) : d[i][1] = k

\* d[k], for k in d
value_of(d, k) == d[CHOOSE i \in 1..Len(d) : d[i][1] = k][2]

\* d[k] = v: an existing key keeps its position and takes the new value,
\* a new key is appended
dict_set(d, k, v) ==
    IF has_key(d, k)
    THEN [i \in 1..Len(d) |-> IF d[i][1] = k THEN <<k, v>> ELSE d[i]]
    ELSE Append(d, <<k, v>>)

\* dict(items): the pairs inserted from left to right
RECURSIVE dict_from(_, _)
dict_from(acc, items) ==
    IF items = <<>> THEN acc
    ELSE dict_from(dict_set(acc, Head(items)[1], Head(items)[2]), Tail(items))

dict(items) == dict_from(EmptyDict, items)

\* str(v) for a list value: its repr, a string
str(v) == Scalar(v.s)

sep == "__"

\* isinstance(v, collections.MutableMapping)
is_mapping(v) == v.t = "map"


-----------------------------------------------------------------------------
(* The record transformer: src/target_csv.py flatten and transform,        *)
(* src/target_helper.py TargetHelper.transform                             *)

\* a faulty flatten: the separator is put before a top-level key too
RECURSIVE flatten_separator_always(_, _)
flatten_separator_always(d, parent_key) ==
    LET new_key(k) == parent_key \o sep \o k
        RECURSIVE items(_)
        items(i) ==
            IF i > Len(d) THEN <<>>
            ELSE LET k == d[i][1]
                     v == d[i][2]
                 IN (IF is_mapping(v)
                     THEN flatten_separator_always(v.items, new_key(k))
                     ELSE << <<new_key(k), IF v.t = "list" THEN str(v) ELSE v>> >>)
                    \o items(i + 1)
    IN dict(items(1))

\* flatten(d, parent_key, sep='__'): the items of d in order, a nested
\* mapping replaced by its own flattened items under the joined key, a list
\* replaced by its string; then dict(items)
RECURSIVE flatten(_, _)
flatten(d, parent_key) ==
    LET new_key(k) == IF parent_key # "" THEN parent_key \o sep \o k ELSE k
        RECURSIVE items(_)
        items(i) ==
            IF i > Len(d) THEN <<>>
            ELSE LET k == d[i][1]
                     v == d[i][2]
                 IN (IF is_mapping(v)
                     THEN flatten(v.items, new_key(k))
                     ELSE << <<new_key(k), IF v.t = "list" THEN str(v) ELSE v>> >>)
                    \o items(i + 1)
    IN dict(items(1))

\* TargetHelper.flatten(d, parent_key, sep='__'): the same code as flatten
RECURSIVE TargetHelper_flatten(_, _)
TargetHelper_flatten(d, parent_key) ==
    LET new_key(k) == IF parent_key # "" THEN parent_key \o sep \o k ELSE k
        RECURSIVE items(_)
        items(i) ==
            IF i > Len(d) THEN <<>>
            ELSE LET k == d[i][1]
                     v == d[i][2]
                 IN (IF is_mapping(v)
                     THEN TargetHelper_flatten(v.items, new_key(k))
                     ELSE << <<new_key(k), IF v.t = "list" THEN str(v) ELSE v>> >>)
                    \o items(i + 1)
    IN dict(items(1))

EmptyMapping == [k \in {} |-> ""]

\* m.get(k, default) for a dict modelled as a function
get(m, k, default) == IF k \in DOMAIN m THEN m[k] ELSE default

\* {rename.get(k, k): r for k, r in records.items()}
renamed(records, rename) ==
    dict([i \in 1..Len(records) |->
            <<get(rename, records[i][1], records[i][1]), records[i][2]>>])

\* target_csv.transform: reads the stream's "field_mappings" entry
transform(records, stream_mappings) ==
    renamed(records, get(stream_mappings, "field_mappings", EmptyMapping))

\* TargetHelper.transform: reads the stream's "fields_mapping" entry
TargetHelper_transform(records, stream_mappings) ==
    renamed(records, get(stream_mappings, "fields_mapping", EmptyMapping))

-----------------------------------------------------------------------------
(* The checkpoint emitter: emit_state                                      *)

\* json.dumps(state): the text of the value
json_dumps(v) == "json(" \o v \o ")"

\* a faulty emit_state: the line is written for None too
emit_state_none_written(st, out) == Append(out, json_dumps(st) \o "\n")

\* emit_state(state): the standard output after the call
emit_state(st, out) ==
    IF st # None THEN Append(out, json_dumps(st) \o "\n") ELSE out

-----------------------------------------------------------------------------
(* The CSV sink: the RECORD branch of persist_messages                     *)

destination_path == "dest"
now == "T"

\* Draft4Validator(schema).validate(record) passes: the required-field rule
validate(schema, record) ==
    \A k \in schema.required : has_key(record, k)

\* a faulty record_check: a stream without a schema is let through
record_check_unknown_stream_accepted(stream, record, schemas_, validators_) ==
    IF stream \notin DOMAIN schemas_ THEN "ok"
    ELSE IF ~validate(validators_[stream], record) THEN "ValidationError"
    ELSE "ok"

\* a faulty record_check: the record is not validated
record_check_unvalidated(stream, record, schemas_, validators_) ==
    IF stream \notin DOMAIN schemas_ THEN "Exception" ELSE "ok"

\* lines 74-78: what the two checks before any file access decide
record_check(stream, record, schemas_, validators_) ==
    IF stream \notin DOMAIN schemas_ THEN "Exception"
    ELSE IF ~validate(validators_[stream], record) THEN "ValidationError"
    ELSE "ok"

\* a faulty destination: the "to" entry of the mapping is not used
filename_of_to_ignored(stream, stream_mapping) ==
    destination_path \o "/" \o stream \o "-" \o now \o ".csv"

\* lines 81-82: the destination file of a stream
filename_of(stream, stream_mapping) ==
    destination_path \o "/" \o get(stream_mapping, "to", stream \o "-" \o now)
        \o ".csv"

\* line 83
file_is_empty(fs, filename) ==
    filename \notin DOMAIN fs \/ Len(fs[filename]) = 0

\* a faulty header inference: the header is taken from every record's keys
headers_after_rederived(hdrs, stream, fs, filename, transformed_records) ==
    IF stream \notin DOMAIN hdrs /\ ~file_is_empty(fs, filename)
    THEN LET first_line == fs[filename][1]
         IN (stream :> (IF first_line # <<>> THEN first_line
                        ELSE keys(transformed_records))) @@ hdrs
    ELSE (stream :> keys(transformed_records)) @@ hdrs

\* a faulty header inference: an existing file's first line is not read
headers_after_file_unread(hdrs, stream, fs, filename, transformed_records) ==
    IF stream \notin DOMAIN hdrs \/ file_is_empty(fs, filename)
    THEN (stream :> keys(transformed_records)) @@ hdrs
    ELSE hdrs

\* lines 87-95: the headers dict after the header inference
headers_after(hdrs, stream, fs, filename, transformed_records) ==
    IF stream \notin DOMAIN hdrs /\ ~file_is_empty(fs, filename)
    THEN LET first_line == fs[filename][1]
         IN (stream :> (IF first_line # <<>> THEN first_line
                        ELSE keys(transformed_records))) @@ hdrs
    ELSE IF file_is_empty(fs, filename)
    THEN (stream :> keys(transformed_records)) @@ hdrs
    ELSE hdrs

\* the text csv.writer writes for a value: None is written as the empty field
csv_field(v) == IF v.t = "null" THEN "" ELSE v.s

\* a faulty writerow: the values of the record, in the record's order
writerow_all_values(fieldnames, rowdict) ==
    [i \in 1..Len(rowdict) |-> csv_field(rowdict[i][2])]

\* DictWriter(fieldnames, extrasaction='ignore').writerow(rowdict):
\* rowdict.get(key, restval) for each key of fieldnames, restval = ''
writerow(fieldnames, rowdict) ==
    [i \in 1..Len(fieldnames) |->
        IF has_key(rowdict, fieldnames[i])
        THEN csv_field(value_of(rowdict, fieldnames[i]))
        ELSE ""]

\* a faulty append: the file is opened for writing and loses its lines
files_after_truncating(fs, filename, fieldnames, rowdict) ==
    LET headed == IF file_is_empty(fs, filename) THEN <<fieldnames>> ELSE <<>>
    IN (filename :> Append(headed, writerow(fieldnames, rowdict))) @@ fs

\* a faulty append: the header line is written at every append
files_after_header_always(fs, filename, fieldnames, rowdict) ==
    LET old == IF filename \in DOMAIN fs THEN fs[filename] ELSE <<>>
    IN (filename :> Append(Append(old, fieldnames),
                           writerow(fieldnames, rowdict))) @@ fs

\* lines 97-106: the file system after the append
files_after(fs, filename, fieldnames, rowdict) ==
    LET old == IF filename \in DOMAIN fs THEN fs[filename] ELSE <<>>
        headed == IF file_is_empty(fs, filename)
                  THEN Append(old, fieldnames) ELSE old
    IN (filename :> Append(headed, writerow(fieldnames, rowdict))) @@ fs

\* a faulty line 108: the pending checkpoint survives the append
state_after_record_kept(st) == st

\* line 108
state_after_record(st) == None

\* lines 110-111
state_after_state(st, value) == value

\* a faulty STATE branch: the value is emitted as soon as it is read
stdout_after_state_eager(out, value) == emit_state(value, out)

\* lines 109-111: a STATE message writes nothing to standard output
stdout_after_state(out, value) == out

-----------------------------------------------------------------------------
(* The inputs of a run                                                     *)

Streams == {"A", "B"}

R1 == << <<"a", Scalar("2")>>, <<"b", Map(<< <<"c", Scalar("3")>> >>)>> >>
R2 == << <<"b", Map(<< <<"c", Scalar("4")>>, <<"e", Null>> >>)>>,
         <<"d", List("[5, 6]")>> >>
Records == {R1, R2}

SchemaAny == [required |-> {}]
SchemaReqA == [required |-> {"a"}]
Schemas == {SchemaAny, SchemaReqA}

StateValues == {None, "s1", "s2"}

\* the message types singer.parse_message builds a message for; for any
\* other type it returns None
SingerTypes == {"RECORD", "SCHEMA", "STATE", "ACTIVATE_VERSION"}

RecordLines ==
    {[syntax |-> "json", type |-> "RECORD", stream |-> s, record |-> r] :
        s \in Streams, r \in Records}
StateLines ==
    {[syntax |-> "json", type |-> "STATE", value |-> v] : v \in StateValues}
SchemaLines ==
    {[syntax |-> "json", type |-> "SCHEMA", stream |-> s, schema |-> sc,
      key_properties |-> IF sc = SchemaReqA THEN <<"a">> ELSE <<>>] :
        s \in Streams, sc \in Schemas}
OtherLines ==
    {[syntax |-> "json", type |-> "ACTIVATE_VERSION"],
     [syntax |-> "json", type |-> "FOO"]}
MalformedLines == {[syntax |-> "malformed"]}

Lines ==
    RecordLines \cup StateLines \cup SchemaLines \cup OtherLines
        \cup MalformedLines

\* the field-mapping file (line 61), or {} without one
NoStreams == [s \in {} |-> EmptyMapping]
MappingConfigs ==
    { NoStreams,
      "A" :> [to |-> "out", fields_mapping |-> ("a" :> "x")],
      "A" :> [field_mappings |-> ("a" :> "x")],
      ("A" :> [to |-> "out"]) @@ ("B" :> [to |-> "out"]) }

\* the destination directory before the run: no file, or one file at the
\* destination of a stream, which is empty, or starts with a header line,
\* or starts with a blank line
NoFiles == [f \in {} |-> <<>>]
OldContents ==
    { <<>>,
      << <<"a", "x">>, <<"0", "9">> >>,
      << <<>>, <<"0">> >> }
InitialFiles(m) ==
    {NoFiles} \cup
    {filename_of("A", get(m, "A", EmptyMapping)) :> c : c \in OldContents}

-----------------------------------------------------------------------------
(* The state of a run                                                      *)

VARIABLES
    pc,              \* "running", "done" (main returned), "failed" (exception)
    err,             \* the exception that ended the run, or None
    consumed,        \* the input lines read so far, in order
    state,           \* persist_messages: state
    schemas,         \* persist_messages: schemas
    validators,      \* persist_messages: validators
    key_properties,  \* persist_messages: key_properties
    headers,         \* persist_messages: headers
    mappings,        \* persist_messages: mappings
    files,           \* the destination directory: path -> lines
    stdout,          \* the lines written to standard output
    fn_in,           \* the arguments of a direct call of transform
    fn_out           \* the function called directly and what it returned

vars ==
    <<pc, err, consumed, state, schemas, validators, key_properties, headers,
      mappings, files, stdout, fn_in, fn_out>>

NoCall == [records |-> EmptyDict, stream_mappings |-> EmptyMapping]
NoResult == [fn |-> "none", value |-> EmptyDict]

\* lines 52-63, before the first message is read
Init ==
    /\ pc = "running"
    /\ err = None
    /\ consumed = <<>>
    /\ state = None
    /\ schemas = [s \in {} |-> SchemaAny]
    /\ validators = [s \in {} |-> SchemaAny]
    /\ key_properties = [s \in {} |-> <<>>]
    /\ headers = [s \in {} |-> <<>>]
    /\ mappings \in MappingConfigs
    /\ files \in InitialFiles(mappings)
    /\ stdout = <<>>
    /\ fn_in = NoCall
    /\ fn_out = NoResult

\* line 67: singer.parse_message(message).asdict()
parse_outcome(line) ==
    IF line.syntax # "json" THEN "JSONDecodeError"
    ELSE IF line.type \notin SingerTypes THEN "AttributeError"
    ELSE "ok"

\* line 65: the loop takes the next input line
Read(line) ==
    /\ pc = "running"
    /\ Len(consumed) < MaxMsgs
    /\ consumed' = Append(consumed, line)
    /\ UNCHANGED <<fn_in, fn_out>>

\* a faulty exit: the pending checkpoint is written when the run fails
Raise_state_flushed(e) ==
    /\ pc' = "failed"
    /\ err' = e
    /\ stdout' = emit_state(state, stdout)
    /\ UNCHANGED <<state, schemas, validators, key_properties, headers,
                   mappings, files>>

\* an exception leaves persist_messages and main: nothing more is done
Raise(e) ==
    /\ pc' = "failed"
    /\ err' = e
    /\ UNCHANGED <<state, schemas, validators, key_properties, headers,
                   mappings, files, stdout>>

\* lines 66-71: the line cannot be parsed into a message
ParseFailure(line) ==
    /\ Read(line)
    /\ parse_outcome(line) # "ok"
    /\ Raise(parse_outcome(line))

\* lines 73-108
Record(line) ==
    /\ Read(line)
    /\ parse_outcome(line) = "ok"
    /\ line.type = "RECORD"
    /\ LET check == record_check(line.stream, line.record, schemas, validators)
       IN IF check # "ok" THEN Raise(check)
          ELSE LET stream_mapping == get(mappings, line.stream, EmptyMapping)
                   filename == filename_of(line.stream, stream_mapping)
                   flattened_record == flatten(line.record, "")
                   transformed_records ==
                       transform(flattened_record, stream_mapping)
                   hdrs == headers_after(headers, line.stream, files,
                                         filename, transformed_records)
               IN /\ headers' = hdrs
                  /\ files' = files_after(files, filename, hdrs[line.stream],
                                          transformed_records)
                  /\ state' = state_after_record(state)
                  /\ UNCHANGED <<pc, err, schemas, validators, key_properties,
                                 mappings, stdout>>

\* lines 109-111
State(line) ==
    /\ Read(line)
    /\ parse_outcome(line) = "ok"
    /\ line.type = "STATE"
    /\ state' = state_after_state(state, line.value)
    /\ stdout' = stdout_after_state(stdout, line.value)
    /\ UNCHANGED <<pc, err, schemas, validators, key_properties, headers,
                   mappings, files>>

\* a faulty registration: the entry a stream already has is kept
registered_first_kept(d, stream, value) == d @@ (stream :> value)

\* lines 114-116: d[stream] = value
registered(d, stream, value) == (stream :> value) @@ d

\* lines 112-116
Schema(line) ==
    /\ Read(line)
    /\ parse_outcome(line) = "ok"
    /\ line.type = "SCHEMA"
    /\ schemas' = registered(schemas, line.stream, line.schema)
    /\ validators' = registered(validators, line.stream, line.schema)
    /\ key_properties' =
          registered(key_properties, line.stream, line.key_properties)
    /\ UNCHANGED <<pc, err, state, headers, mappings, files, stdout>>

\* lines 117-119: a message of another type is logged
Unknown(line) ==
    /\ Read(line)
    /\ parse_outcome(line) = "ok"
    /\ line.type \notin {"RECORD", "STATE", "SCHEMA"}
    /\ UNCHANGED <<pc, err, state, schemas, validators, key_properties,
                   headers, mappings, files, stdout>>

\* lines 121 and 219-226: the input ends, persist_messages returns state and
\* main calls emit_state
EndOfInput ==
    /\ pc = "running"
    /\ pc' = "done"
    /\ stdout' = emit_state(state, stdout)
    /\ UNCHANGED <<err, consumed, state, schemas, validators, key_properties,
                   headers, mappings, files, fn_in, fn_out>>

Next ==
    \/ \E line \in Lines : ParseFailure(line)
    \/ \E line \in Lines : Record(line)
    \/ \E line \in Lines : State(line)
    \/ \E line \in Lines : Schema(line)
    \/ \E line \in Lines : Unknown(line)
    \/ EndOfInput

Spec == Init /\ [][Next]_vars

-----------------------------------------------------------------------------
(* transform and TargetHelper.transform called directly on bounded inputs  *)

\* the number of entries of a flattened record given to transform
MaxKeys == 2

FlatKeys == {"a", "b", "x"}
FlatValues == {Scalar("1"), Scalar("2")}

\* the dicts of at most MaxKeys entries with distinct keys
FlatDicts ==
    UNION {{d \in [1..n -> FlatKeys \X FlatValues] :
              \A i, j \in 1..n : i # j => d[i][1] # d[j][1]} : n \in 0..MaxKeys}

\* the renamings of some of the keys a, b
FieldMappings == UNION {[D -> FlatKeys] : D \in SUBSET {"a", "b"}}

StreamMappings ==
    {[field_mappings |-> fm] : fm \in FieldMappings}
        \cup {[fields_mapping |-> fm] : fm \in FieldMappings}

InitTransform ==
    /\ pc = "running"
    /\ err = None
    /\ consumed = <<>>
    /\ state = None
    /\ schemas = [s \in {} |-> SchemaAny]
    /\ validators = [s \in {} |-> SchemaAny]
    /\ key_properties = [s \in {} |-> <<>>]
    /\ headers = [s \in {} |-> <<>>]
    /\ mappings = NoStreams
    /\ files = NoFiles
    /\ stdout = <<>>
    /\ fn_in \in [records : FlatDicts, stream_mappings : StreamMappings]
    /\ fn_out = NoResult

pipeline ==
    <<pc, err, consumed, state, schemas, validators, key_properties, headers,
      mappings, files, stdout>>

\* transform(records, stream_mappings) of src/target_csv.py
CallTransform ==
    /\ fn_out = NoResult
    /\ fn_out' = [fn |-> "transform",
                  value |-> transform(fn_in.records, fn_in.stream_mappings)]
    /\ UNCHANGED <<fn_in, pipeline>>

\* TargetHelper.transform(records, stream_mappings) of src/target_helper.py
CallHelperTransform ==
    /\ fn_out = NoResult
    /\ fn_out' = [fn |-> "TargetHelper.transform",
                  value |-> TargetHelper_transform(fn_in.records,
                                                   fn_in.stream_mappings)]
    /\ UNCHANGED <<fn_in, pipeline>>

NextTransform == CallTransform \/ CallHelperTransform

SpecTransform == InitTransform /\ [][NextTransform]_vars

-----------------------------------------------------------------------------
(* Properties                                                              *)

Last(q) == q[Len(q)]

Max(S) == CHOOSE n \in S : \A m \in S : m <= n

\* the line is a well-formed message of type t
IsMsg(line, t) == line.syntax = "json" /\ line.type = t

\* this step read an input line
ReadStep == Len(consumed') = Len(consumed) + 1

\* the positions of the STATE messages read so far
StatePositions == {i \in 1..Len(consumed) : IsMsg(consumed[i], "STATE")}

\* a SCHEMA message for stream s has been read
SchemaSeen(s) ==
    \E i \in 1..Len(consumed) :
        IsMsg(consumed[i], "SCHEMA") /\ consumed[i].stream = s

\* the schema of the last SCHEMA message read for stream s
LatestSchema(s) ==
    consumed[Max({i \in 1..Len(consumed) :
                    IsMsg(consumed[i], "SCHEMA") /\ consumed[i].stream = s})]
        .schema

\* the transformed record the RECORD branch builds from a RECORD line
Transformed(line) ==
    transform(flatten(line.record, ""), get(mappings, line.stream, EmptyMapping))

\* the destination file of a RECORD line
Destination(line) ==
    filename_of(line.stream, get(mappings, line.stream, EmptyMapping))

\* C1: every line on standard output is the value of the last STATE message
\* read, and no RECORD message was read after that STATE message; so a STATE
\* value followed by a RECORD is never emitted, and nothing is emitted when
\* a RECORD follows the last STATE.
C1_CheckpointDebounce ==
    \A n \in 1..Len(stdout) :
        /\ StatePositions # {}
        /\ LET last == Max(StatePositions)
           IN /\ stdout[n] = json_dumps(consumed[last].value) \o "\n"
              /\ \A j \in (last + 1)..Len(consumed) :
                    ~IsMsg(consumed[j], "RECORD")

\* the run STATE(s1) ... RECORD ... STATE(s2) has ended and s2 was emitted
C1_Witness ==
    /\ pc = "done"
    /\ stdout = <<json_dumps("s2") \o "\n">>
    /\ \E i, j, k \in 1..Len(consumed) :
        /\ i < j /\ j < k
        /\ IsMsg(consumed[i], "STATE") /\ consumed[i].value = "s1"
        /\ IsMsg(consumed[j], "RECORD")
        /\ IsMsg(consumed[k], "STATE") /\ consumed[k].value = "s2"

\* C2: standard output holds at most one checkpoint line; a line is there
\* only when the run has ended normally, and then every RECORD read has its
\* row in its destination file; the only step that writes to standard
\* output is the end of input, never the step that reads a message.
C2_EmittedOnceAtEnd ==
    /\ [](/\ Len(stdout) <= 1
          /\ stdout # <<>> =>
                /\ pc = "done"
                /\ \A i \in 1..Len(consumed) :
                      IsMsg(consumed[i], "RECORD") =>
                        LET f == Destination(consumed[i])
                            row == writerow(headers[consumed[i].stream],
                                            Transformed(consumed[i]))
                        IN /\ f \in DOMAIN files
                           /\ \E r \in 1..Len(files[f]) : files[f][r] = row)
    /\ [][stdout' # stdout =>
            /\ pc = "running" /\ pc' = "done"
            /\ consumed' = consumed]_vars

\* a run with a RECORD and a later STATE has ended with one line emitted
C2_Witness ==
    /\ pc = "done"
    /\ Len(stdout) = 1
    /\ \E i, j \in 1..Len(consumed) :
        i < j /\ IsMsg(consumed[i], "RECORD") /\ IsMsg(consumed[j], "STATE")

\* C3: the step that reads a RECORD for a stream with no earlier SCHEMA
\* message ends the run with the exception of line 75 and changes neither
\* the files nor the headers: no file is created and nothing is appended.
C3_RecordBeforeSchemaIsFatal ==
    [][(/\ ReadStep
        /\ IsMsg(Last(consumed'), "RECORD")
        /\ ~SchemaSeen(Last(consumed').stream))
       => /\ pc' = "failed"
          /\ err' = "Exception"
          /\ files' = files
          /\ headers' = headers]_vars

\* a RECORD for B was refused while a schema for A was registered
C3_Witness ==
    /\ pc = "failed"
    /\ err = "Exception"
    /\ IsMsg(Last(consumed), "RECORD")
    /\ Last(consumed).stream = "B"
    /\ "A" \in DOMAIN schemas
    /\ "B" \notin DOMAIN schemas

\* C4: a stream's header, once set, is the same after every step.
C4_HeaderImmutable ==
    [][\A s \in DOMAIN headers :
          s \in DOMAIN headers' /\ headers'[s] = headers[s]]_vars

\* after A's header was set, a SCHEMA for A and a RECORD of A with other
\* keys were processed
C4_Witness ==
    /\ pc = "running"
    /\ "A" \in DOMAIN headers
    /\ \E i, j, k \in 1..Len(consumed) :
        /\ i < j /\ j < k
        /\ IsMsg(consumed[i], "RECORD") /\ consumed[i].stream = "A"
        /\ IsMsg(consumed[j], "SCHEMA") /\ consumed[j].stream = "A"
        /\ IsMsg(consumed[k], "RECORD") /\ consumed[k].stream = "A"
        /\ keys(Transformed(consumed[k])) # headers["A"]

\* C5: a RECORD that passes the two checks of lines 74-78 is appended
\* without error; the row appended to its file has one field per header
\* column, in header order: the record's value for the column when the key
\* is present, the empty field otherwise; and a header already set is kept.
C5_RowShape ==
    [][ReadStep =>
        LET line == Last(consumed')
            tr == Transformed(line)
            f == Destination(line)
        IN (/\ IsMsg(line, "RECORD")
            /\ SchemaSeen(line.stream)
            /\ \A k \in LatestSchema(line.stream).required :
                  has_key(line.record, k))
           => /\ pc' = "running"
              /\ line.stream \in DOMAIN headers =>
                     headers'[line.stream] = headers[line.stream]
              /\ f \in DOMAIN files'
              /\ LET row == Last(files'[f])
                     header == headers'[line.stream]
                 IN /\ Len(row) = Len(header)
                    /\ \A i \in 1..Len(header) :
                         row[i] = IF has_key(tr, header[i])
                                  THEN csv_field(value_of(tr, header[i]))
                                  ELSE ""]_vars

\* a record lacking one header column, holding another, and carrying keys
\* outside the header was appended
C5_Witness ==
    /\ pc = "running"
    /\ consumed # <<>>
    /\ IsMsg(Last(consumed), "RECORD")
    /\ LET line == Last(consumed)
           header == headers[line.stream]
       IN /\ \E i \in 1..Len(header) : ~has_key(Transformed(line), header[i])
          /\ \E i \in 1..Len(Transformed(line)) :
                \A j \in 1..Len(header) : header[j] # Transformed(line)[i][1]
          /\ \E i \in 1..Len(header) : has_key(Transformed(line), header[i])

\* this step read a RECORD line and appended it
AppendStep ==
    /\ ReadStep
    /\ IsMsg(Last(consumed'), "RECORD")
    /\ pc' = "running"

\* the file exists and is not empty
NonEmptyFile(f) == f \in DOMAIN files /\ files[f] # <<>>

\* C6 as stated: at a stream's first RECORD of the run, the header is the
\* first line of the destination file when that file exists and is not
\* empty, and the keys of the transformed record otherwise.
C6_HeaderInference_AsStated ==
    [][(AppendStep /\ Last(consumed').stream \notin DOMAIN headers)
       => LET line == Last(consumed')
              f == Destination(line)
          IN headers'[line.stream] =
                IF NonEmptyFile(f) THEN files[f][1]
                ELSE keys(Transformed(line))]_vars

\* C6 as amended: at a stream's first RECORD of the run, the header is the
\* first line of the destination file when that file exists, is not empty
\* and does not start with a blank line; otherwise it is the keys of the
\* transformed record, in their order.
C6_HeaderInference ==
    [][(AppendStep /\ Last(consumed').stream \notin DOMAIN headers)
       => LET line == Last(consumed')
              f == Destination(line)
          IN headers'[line.stream] =
                IF NonEmptyFile(f) /\ files[f][1] # <<>> THEN files[f][1]
                ELSE keys(Transformed(line))]_vars

\* A's header was read from the first line of a file that was there before
\* the run, and differs from the keys of the record appended
C6_Witness ==
    /\ pc = "running"
    /\ Len(consumed) = 2
    /\ IsMsg(consumed[2], "RECORD")
    /\ consumed[2].stream = "A"
    /\ headers["A"] = <<"a", "x">>
    /\ files[Destination(consumed[2])][1] = <<"a", "x">>
    /\ keys(Transformed(consumed[2])) # <<"a", "x">>

\* C7: when the mapping of the record's stream has a fields_mapping entry
\* and the record starts its file, the header line written holds, for each
\* flattened key in order, the name fields_mapping gives it, or the key
\* itself when fields_mapping has no entry for it.
C7_FieldsMappingRenames ==
    [][(/\ AppendStep
        /\ ~NonEmptyFile(Destination(Last(consumed')))
        /\ "fields_mapping" \in
              DOMAIN get(mappings, Last(consumed').stream, EmptyMapping))
       => LET line == Last(consumed')
              fm == mappings[line.stream].fields_mapping
              flat == keys(flatten(line.record, ""))
          IN files'[Destination(line)][1] =
                [i \in 1..Len(flat) |-> get(fm, flat[i], flat[i])]]_vars

\* C8: the dict transform returns has as many entries as its argument and
\* the same set of values, for both transform functions.
C8_TransformTotal ==
    fn_out.fn # "none" =>
        /\ Len(fn_out.value) = Len(fn_in.records)
        /\ {fn_out.value[i][2] : i \in 1..Len(fn_out.value)}
              = {fn_in.records[i][2] : i \in 1..Len(fn_in.records)}

\* C9: the step that reads a well-formed message whose type is not RECORD,
\* SCHEMA or STATE leaves the run going and changes nothing but the input
\* position.
C9_UnknownTypeSkipped ==
    [][(/\ ReadStep
        /\ Last(consumed').syntax = "json"
        /\ Last(consumed').type \notin {"RECORD", "SCHEMA", "STATE"})
       => /\ pc' = "running"
          /\ UNCHANGED <<state, schemas, validators, key_properties, headers,
                         files, stdout>>]_vars

\* C10: the step that reads a RECORD lacking a field required by the last
\* schema registered for its stream ends the run with a validation error
\* and changes neither the files nor the headers; and no step is taken once
\* the run has failed.
C10_InvalidRecordIsFatal ==
    [][/\ pc # "failed"
       /\ (/\ ReadStep
           /\ IsMsg(Last(consumed'), "RECORD")
           /\ SchemaSeen(Last(consumed').stream)
           /\ \E k \in LatestSchema(Last(consumed').stream).required :
                 ~has_key(Last(consumed').record, k))
          => /\ pc' = "failed"
             /\ err' = "ValidationError"
             /\ files' = files
             /\ headers' = headers]_vars

\* a record was refused by its schema after another record of the stream
\* had been appended, with input left to read
C10_Witness ==
    /\ pc = "failed"
    /\ err = "ValidationError"
    /\ Len(consumed) < MaxMsgs
    /\ \E i \in 1..(Len(consumed) - 1) :
          /\ IsMsg(consumed[i], "RECORD")
          /\ consumed[i].stream = Last(consumed).stream

\* the last STATE message read carries the null value and no RECORD was
\* read after it
NullCheckpointPending ==
    /\ StatePositions # {}
    /\ consumed[Max(StatePositions)].value = None
    /\ \A j \in (Max(StatePositions) + 1)..Len(consumed) :
          ~IsMsg(consumed[j], "RECORD")

\* C11 as stated: when the run ends with a null STATE value pending, that
\* null value is the line written to standard output.
C11_NullCheckpoint_AsStated ==
    (pc = "done" /\ NullCheckpointPending)
        => stdout = <<json_dumps(None) \o "\n">>

\* C11 as amended: a null STATE value overwrites the pending checkpoint, so
\* an earlier value is not emitted; and nothing at all is written to
\* standard output for it: null is the same as no checkpoint outstanding.
C11_NullCheckpoint ==
    NullCheckpointPending => stdout = <<>>

\* the run ... STATE(s1) STATE(null) has ended
C11_Witness ==
    /\ pc = "done"
    /\ Len(consumed) >= 2
    /\ IsMsg(consumed[Len(consumed) - 1], "STATE")
    /\ consumed[Len(consumed) - 1].value = "s1"
    /\ IsMsg(Last(consumed), "STATE")
    /\ Last(consumed).value = None

-----------------------------------------------------------------------------
(* flatten and TargetHelper.flatten called directly on bounded inputs      *)

\* the number of entries of the top-level mapping given to flatten
MaxWidth == 2

\* keys: the empty string, plain keys, and a key that holds the separator
NestKeys == {"", "a", "b", "a__b"}

Leaves == {Scalar("1"), Null, List("[5, 6]")}

\* the nested mappings a top-level value may be
InnerDicts ==
    { EmptyDict,
      << <<"a", Scalar("1")>> >>,
      << <<"b", Null>> >>,
      << <<"a", List("[5, 6]")>> >>,
      << <<"", Scalar("1")>> >>,
      << <<"a", Scalar("1")>>, <<"b", Scalar("1")>> >>,
      << <<"a", Map(EmptyDict)>> >>,
      << <<"a", Map(<< <<"b", Scalar("1")>> >>)>> >> }

TopValues == Leaves \cup {Map(d) : d \in InnerDicts}

\* the mappings of at most MaxWidth entries with distinct keys
NestedDicts ==
    UNION {{d \in [1..n -> NestKeys \X TopValues] :
              \A i, j \in 1..n : i # j => d[i][1] # d[j][1]} : n \in 0..MaxWidth}

InitFlatten ==
    /\ pc = "running"
    /\ err = None
    /\ consumed = <<>>
    /\ state = None
    /\ schemas = [s \in {} |-> SchemaAny]
    /\ validators = [s \in {} |-> SchemaAny]
    /\ key_properties = [s \in {} |-> <<>>]
    /\ headers = [s \in {} |-> <<>>]
    /\ mappings = NoStreams
    /\ files = NoFiles
    /\ stdout = <<>>
    /\ fn_in \in [records : NestedDicts, stream_mappings : {EmptyMapping}]
    /\ fn_out = NoResult

\* flatten(d) of src/target_csv.py
CallFlatten ==
    /\ fn_out = NoResult
    /\ fn_out' = [fn |-> "flatten", value |-> flatten(fn_in.records, "")]
    /\ UNCHANGED <<fn_in, pipeline>>

\* flatten applied to what flatten returned
CallFlattenAgain ==
    /\ fn_out.fn = "flatten"
    /\ fn_out' = [fn |-> "flatten.flatten", value |-> flatten(fn_out.value, "")]
    /\ UNCHANGED <<fn_in, pipeline>>

\* TargetHelper.flatten(d) of src/target_helper.py
CallHelperFlatten ==
    /\ fn_out = NoResult
    /\ fn_out' = [fn |-> "TargetHelper.flatten",
                  value |-> TargetHelper_flatten(fn_in.records, "")]
    /\ UNCHANGED <<fn_in, pipeline>>

\* TargetHelper.flatten applied to what TargetHelper.flatten returned
CallHelperFlattenAgain ==
    /\ fn_out.fn = "TargetHelper.flatten"
    /\ fn_out' = [fn |-> "TargetHelper.flatten.flatten",
                  value |-> TargetHelper_flatten(fn_out.value, "")]
    /\ UNCHANGED <<fn_in, pipeline>>

NextFlatten ==
    \/ CallFlatten
    \/ CallFlattenAgain
    \/ CallHelperFlatten
    \/ CallHelperFlattenAgain

SpecFlatten == InitFlatten /\ [][NextFlatten]_vars

\* C12: flatten applied to a result of flatten returns that result
\* unchanged, for flatten and for TargetHelper.flatten.
C12_FlattenIdempotent ==
    [][(fn_out.fn \in {"flatten", "TargetHelper.flatten"}
            /\ fn_out'.fn # fn_out.fn)
       => fn_out'.value = fn_out.value]_vars

\* flatten was applied twice to a mapping that holds a list, a null, an
\* empty nested mapping and a nested mapping with an entry
C12_Witness ==
    /\ fn_out.fn = "flatten.flatten"
    /\ \E i, j \in 1..Len(fn_in.records) :
          /\ fn_in.records[i][2].t = "map"
          /\ fn_in.records[i][2].items # EmptyDict
          /\ fn_in.records[j][2].t \in {"list", "null"}
    /\ \E i \in 1..Len(fn_out.value) : fn_out.value[i][2] = Scalar("[5, 6]")

\* the leaves of a nested mapping from entry i on, each with the key its
\* path k1, ..., kn is joined to: k1__...__kn
RECURSIVE LeafItemsFrom(_, _, _, _)
LeafItemsFrom(d, i, prefix, nested) ==
    IF i > Len(d) THEN <<>>
    ELSE LET joined == IF nested THEN prefix \o "__" \o d[i][1] ELSE d[i][1]
         IN (IF d[i][2].t = "map"
             THEN LeafItemsFrom(d[i][2].items, 1, joined, TRUE)
             ELSE << <<joined, d[i][2]>> >>)
            \o LeafItemsFrom(d, i + 1, prefix, nested)

LeafItems(d) == LeafItemsFrom(d, 1, "", FALSE)

\* C13: when the joined keys of the leaves of the input are distinct, the
\* result of flatten holds no mapping, has one key per leaf, and holds each
\* leaf's joined key.
C13_FlattenLeaves ==
    fn_out.fn = "flatten" =>
        LET want == LeafItems(fn_in.records)
            out == fn_out.value
        IN (\A i, j \in 1..Len(want) : i # j => want[i][1] # want[j][1])
           => /\ \A i \in 1..Len(out) : out[i][2].t # "map"
              /\ Len(out) = Len(want)
              /\ \A i \in 1..Len(want) : has_key(out, want[i][1])

\* C14: the step that reads a SCHEMA message for a stream makes that
\* message's schema the stream's schema and validator, and leaves the
\* schema and validator of every other stream, all headers, all files and
\* the pending checkpoint as they were; the step that reads a RECORD of a
\* stream with a schema appends it exactly when the record satisfies the
\* schema of the last SCHEMA message read for that stream.
C14_SchemaRegistration ==
    [][ReadStep =>
        LET line == Last(consumed')
        IN /\ IsMsg(line, "SCHEMA") =>
                /\ schemas'[line.stream] = line.schema
                /\ validators'[line.stream] = line.schema
                /\ \A t \in Streams \ {line.stream} :
                      /\ t \in DOMAIN schemas' <=> t \in DOMAIN schemas
                      /\ t \in DOMAIN validators' <=> t \in DOMAIN validators
                      /\ t \in DOMAIN schemas =>
                            /\ schemas'[t] = schemas[t]
                            /\ validators'[t] = validators[t]
                /\ headers' = headers
                /\ files' = files
                /\ state' = state
           /\ (IsMsg(line, "RECORD") /\ SchemaSeen(line.stream)) =>
                (pc' = "running" <=>
                    \A k \in LatestSchema(line.stream).required :
                        has_key(line.record, k))]_vars

\* A's schema was replaced by one that accepts the record then appended,
\* with a schema for B registered in between
C14_Witness ==
    /\ pc = "running"
    /\ Len(consumed) = 4
    /\ IsMsg(consumed[1], "SCHEMA") /\ consumed[1].stream = "A"
    /\ consumed[1].schema = SchemaReqA
    /\ IsMsg(consumed[2], "SCHEMA") /\ consumed[2].stream = "B"
    /\ IsMsg(consumed[3], "SCHEMA") /\ consumed[3].stream = "A"
    /\ consumed[3].schema = SchemaAny
    /\ IsMsg(consumed[4], "RECORD") /\ consumed[4].stream = "A"
    /\ consumed[4].record = R2
    /\ "A" \in DOMAIN headers
    /\ schemas["B"] = consumed[2].schema

\* the lines of a file, none when the file does not exist
LinesOf(fs, f) == IF f \in DOMAIN fs THEN fs[f] ELSE <<>>

\* every file but f exists and reads after the step as before it
OtherFilesKept(f) ==
    /\ DOMAIN files' = DOMAIN files \cup {f}
    /\ \A g \in DOMAIN files \ {f} : files'[g] = files[g]

\* C15: the step that appends a RECORD changes one file only, the
\* destination of the record's stream; the lines that file had stay in
\* place, and the record's row is added as its last line, after the header
\* line if one is written; no other step changes a file. So the rows of a
\* file are in the order of their RECORD messages.
C15_OneRowInOrder ==
    [][IF AppendStep
       THEN LET line == Last(consumed')
                f == Destination(line)
                old == LinesOf(files, f)
                new == files'[f]
            IN /\ OtherFilesKept(f)
               /\ Len(new) \in {Len(old) + 1, Len(old) + 2}
               /\ SubSeq(new, 1, Len(old)) = old
               /\ Len(new) = Len(old) + 2 =>
                     new[Len(new) - 1] = headers'[line.stream]
               /\ Last(new) = writerow(headers'[line.stream], Transformed(line))
       ELSE files' = files]_vars

\* records of A and B were appended in turn, each to its own file
C15_Witness ==
    /\ pc = "running"
    /\ Len(consumed) = 4
    /\ IsMsg(consumed[3], "RECORD") /\ consumed[3].stream = "B"
    /\ IsMsg(consumed[4], "RECORD") /\ consumed[4].stream = "A"
    /\ Destination(consumed[3]) # Destination(consumed[4])
    /\ Len(files[Destination(consumed[4])]) >= 3

\* C16: the step that appends a RECORD to a file that is absent or empty
\* leaves the file with two lines, the stream's header first; the step that
\* appends to a file with lines adds one line and keeps the others, so it
\* writes no header; and a file with lines never becomes empty again. So a
\* file gets at most one header line in a run.
C16_HeaderWrittenOnce ==
    [][/\ \A f \in DOMAIN files :
            files[f] # <<>> => (f \in DOMAIN files' /\ files'[f] # <<>>)
       /\ AppendStep =>
            LET line == Last(consumed')
                f == Destination(line)
            IN IF NonEmptyFile(f)
               THEN /\ Len(files'[f]) = Len(files[f]) + 1
                    /\ SubSeq(files'[f], 1, Len(files[f])) = files[f]
               ELSE /\ Len(files'[f]) = 2
                    /\ files'[f][1] = headers'[line.stream]]_vars

\* two streams mapped to one file were both appended: the file holds one
\* header line and two rows
C16_Witness ==
    /\ pc = "running"
    /\ "A" \in DOMAIN headers /\ "B" \in DOMAIN headers
    /\ filename_of("A", get(mappings, "A", EmptyMapping))
          = filename_of("B", get(mappings, "B", EmptyMapping))
    /\ LET f == filename_of("A", get(mappings, "A", EmptyMapping))
       IN /\ Len(files[f]) = 3
          /\ files[f][1] = headers["A"]
          /\ files[f][1] = headers["B"]
          /\ files[f][1] # <<>>

\* C17: the file a RECORD of stream S is appended to is <to>.csv under
\* destination_path when the mapping of S has a "to" entry, and
\* <S>-<timestamp>.csv otherwise, with the one timestamp of the run; and
\* the mappings never change.
C17_DestinationStable ==
    [][/\ mappings' = mappings
       /\ AppendStep =>
            LET line == Last(consumed')
                sm == get(mappings, line.stream, EmptyMapping)
                p == IF "to" \in DOMAIN sm
                     THEN destination_path \o "/" \o sm.to \o ".csv"
                     ELSE destination_path \o "/" \o line.stream \o "-"
                            \o now \o ".csv"
            IN /\ p \in DOMAIN files'
               /\ files'[p] # LinesOf(files, p)
               /\ \A g \in DOMAIN files' \ {p} :
                     g \in DOMAIN files /\ files'[g] = files[g]]_vars

\* two records of a stream with a "to" entry were appended, both to
\* <to>.csv, and no file named after the stream exists
C17_Witness ==
    /\ pc = "running"
    /\ "to" \in DOMAIN get(mappings, "A", EmptyMapping)
    /\ \E i, j \in 1..Len(consumed) :
          /\ i < j
          /\ IsMsg(consumed[i], "RECORD") /\ consumed[i].stream = "A"
          /\ IsMsg(consumed[j], "RECORD") /\ consumed[j].stream = "A"
    /\ Len(files["dest/out.csv"]) = 3
    /\ "dest/A-T.csv" \notin DOMAIN files

\* the first RECORD line of a stream among the lines read after this step
FirstRecordOf(s) ==
    consumed'[CHOOSE i \in 1..Len(consumed') :
                /\ IsMsg(consumed'[i], "RECORD") /\ consumed'[i].stream = s
                /\ \A j \in 1..(i - 1) :
                      ~(IsMsg(consumed'[j], "RECORD") /\ consumed'[j].stream = s)]

\* C18 as stated: the row a RECORD appends has as many fields as the first
\* line of its file.
C18_ColumnsMatchFirstLine_AsStated ==
    [][AppendStep =>
        LET f == Destination(Last(consumed'))
        IN Len(Last(files'[f])) = Len(files'[f][1])]_vars

\* C18 as amended: the row a RECORD appends has as many fields as the first
\* line of its file, unless that line is blank; then it has as many fields
\* as the transformed first RECORD of its stream in the run has keys.
C18_ColumnsMatchFirstLine ==
    [][AppendStep =>
        LET line == Last(consumed')
            f == Destination(line)
        IN Len(Last(files'[f])) =
              IF files'[f][1] # <<>> THEN Len(files'[f][1])
              ELSE Len(keys(Transformed(FirstRecordOf(line.stream))))]_vars

\* a record whose keys are not as many as the fields of the header line got
\* a row as long as the header line, in a file two streams share or that
\* was there before the run
C18_Witness ==
    /\ pc = "running"
    /\ consumed # <<>>
    /\ IsMsg(Last(consumed), "RECORD")
    /\ LET line == Last(consumed)
           f == Destination(line)
       IN /\ files[f][1] # <<>>
          /\ Len(keys(Transformed(line))) # Len(files[f][1])
          /\ Len(Last(files[f])) = Len(files[f][1])
          /\ Len(files[f]) >= 3

\* the line is one the run cannot get past, given the lines read before it
Fatal(line) ==
    \/ line.syntax # "json"
    \/ /\ IsMsg(line, "RECORD")
       /\ \/ ~SchemaSeen(line.stream)
          \/ \E k \in LatestSchema(line.stream).required :
                ~has_key(line.record, k)

\* C19: the step that reads a malformed line, a RECORD without schema or an
\* invalid RECORD ends the run; a step that ends the run in failure is the
\* reading of a line and leaves every file, every header and standard
\* output as they were; no step follows it; so a failed run has written no
\* checkpoint line.
C19_FatalErrorStopsRun ==
    /\ [](pc = "failed" => stdout = <<>>)
    /\ [][/\ pc # "failed"
          /\ (ReadStep /\ Fatal(Last(consumed'))) => pc' = "failed"
          /\ pc' = "failed" =>
                /\ ReadStep
                /\ files' = files
                /\ headers' = headers
                /\ stdout' = stdout]_vars

\* the run failed on a malformed line with a checkpoint pending and a row
\* appended before
C19_Witness ==
    /\ pc = "failed"
    /\ err = "JSONDecodeError"
    /\ state = "s1"
    /\ stdout = <<>>
    /\ \E i \in 1..Len(consumed) : IsMsg(consumed[i], "RECORD")
    /\ \E f \in DOMAIN files : Len(files[f]) >= 2

=============================================================================
